---- MODULE Spec2Model ----
(***************************************************************************)
(* Model of the JSON benchmark scripts:                                    *)
(*   - benchmark_runner.py        (PostgreSQL JSON/JSONB runner)           *)
(*   - mysql_benchmark_runner.py  (MySQL JSON runner)                      *)
(*   - compare_results.py         (comparator)                             *)
(*                                                                         *)
(* Six specifications share one set of variables:                          *)
(*   Spec           one run of a runner's main(), engine chosen in Init    *)
(*   SpecInserts    MySQL benchmark_inserts at record counts around the    *)
(*                  multiples of its batch size                            *)
(*   SpecGenerators the two generate_test_json on the same index           *)
(*   SpecConfig     main() from load_env_file to the settings of the run   *)
(*   SpecCompare    one call of compare_benchmarks on two documents        *)
(*   SpecRatio      one call of format_ratio on a (value, baseline) pair   *)
(*                                                                         *)
(* Numbers.  Python values that the scripts handle are tagged records      *)
(* [t, v]: t = "num" is a number v, t = "None" is None, t = "N/A" is the    *)
(* sentinel string 'N/A', t = "x" is a ratio string such as "1.25x" whose   *)
(* v is the ratio in hundredths (125).  Decimal results of round(., 2) and *)
(* of "{:.2f}" are kept as integers in hundredths.                         *)
(***************************************************************************)
EXTENDS Integers, Sequences, FiniteSets, TLC

\* ------------------------------------------------------------------ bounds
\* largest metric (time, size) appearing in a fabricated results document
MaxMetric == 8
\* largest elapsed time a timed statement can take, in hundredths of a second
MaxElapsed == 2
\* largest relation size the database reports, in pages
MaxPages == 2
\* largest record count a run is started with
MaxRecords == 2
\* largest seed from which the metrics of a fabricated document are derived
MaxSeed == 2

\* ------------------------------------------------------------ Python values
Num(n) == [t |-> "num", v |-> n]
None == [t |-> "None", v |-> 0]
NA == [t |-> "N/A", v |-> 0]
RatioStr(h) == [t |-> "x", v |-> h]
TypeError == [t |-> "TypeError", v |-> 0]
Unset == [t |-> "unset", v |-> 0]

\* an empty dict {}
EmptyDict == [k \in {} |-> None]

\* dict.get(key, default)
Get(d, key, default) == IF key \in DOMAIN d THEN d[key] ELSE default

\* Python truthiness of a number, None or a non-empty string
Truthy(x) == ~(x.t = "None" \/ (x.t = "num" /\ x.v = 0))

\* n/d rounded to an integer, ties to even: what round(x, k) and "{:.kf}"
\* give when the quotient is exactly representable at the tie (n, d >= 0)
RoundHalfEven(n, d) ==
    LET q == n \div d
        r == n % d
    IN  IF 2 * r < d THEN q
        ELSE IF 2 * r > d THEN q + 1
        ELSE IF q % 2 = 0 THEN q ELSE q + 1

\* n/d to two decimals, as an integer number of hundredths
Round2(n, d) == RoundHalfEven(100 * n, d)

\* ------------------------------------------------------------- format_ratio
\* format_ratio without the value == 'N/A' test
format_ratio_no_value_guard(value, baseline) ==
    IF ~Truthy(baseline) \/ (baseline.t = "num" /\ baseline.v = 0)
       \/ baseline.t = "N/A"
    THEN NA
    ELSE IF value.t = "num" /\ baseline.t = "num"
         THEN RatioStr(Round2(value.v, baseline.v))
         ELSE TypeError

\* compare_results.format_ratio; TypeError stands for the exception that
\* value / baseline raises when value is not a number
format_ratio(value, baseline) ==
    IF ~Truthy(baseline) \/ (baseline.t = "num" /\ baseline.v = 0)
       \/ value.t = "N/A" \/ baseline.t = "N/A"
    THEN NA
    ELSE IF value.t = "num" /\ baseline.t = "num"
         THEN RatioStr(Round2(value.v, baseline.v))
         ELSE TypeError


\* ---------------------------------------------------------------- variables
VARIABLES
    \* one run of a runner's main()
    engine,        \* which runner script is running
    record_count,  \* main's record_count
    pc,            \* the statement of main() that runs next
    pending,       \* what main does when its finally block is over
    conn,          \* benchmark.conn: "unset" (no attribute), "open", "closed"
    cur,           \* benchmark.cur:  "unset" (no attribute), "open", "closed"
    results,       \* benchmark.results
    written,       \* the documents written to output_file, in order
    trace,         \* the calls made by main and how each ended
    exit_code,     \* the process exit code, Unset while running
    db,            \* the test tables: for each one the generator indices of
                   \* its rows, in id order; no entry when the table is absent
    batches,       \* the values lists passed to cur.executemany, in order
    rowcount,      \* the rows modified by the timed UPDATE of each table
    console,       \* the 'Winner' lines generate_report printed
    \* one call of compare_benchmarks
    pg_file,       \* the document stored at the pg_file path, or NoFile
    mysql_file,    \* the document stored at the mysql_file path, or NoFile
    output_file,   \* the output_file argument: None or a path
    comparison,    \* the comparison dict that was built
    cmp_file,      \* the documents written to output_file, in order
    cmp_rc,        \* what the call returned or raised, Unset before it
    cmp_summary,   \* the Fastest/Smallest lines the call printed
    \* one call of format_ratio
    fr_value, fr_baseline, fr_result,
    \* one call of each generate_test_json with the same index
    gen_i,         \* the index i
    pg_doc,        \* the document of the PostgreSQL function, Unset before
    mysql_doc,     \* the document of the MySQL method, Unset before
    \* the start of main() of a runner, up to the settings of the run
    script,        \* the runner: "postgresql" or "mysql"
    args,          \* the parsed command line
    env_content,   \* the lines of the file at args.env_file, or NoFile
    environ,       \* os.environ
    cfg_pc,        \* "load_env_file", "settings", "done"
    settings       \* record_count and output_file of the run

runnerVars == <<engine, record_count, pc, pending, conn, cur, results,
                written, trace, exit_code, db, batches, rowcount,
                console>>
cmpVars == <<pg_file, mysql_file, output_file, comparison, cmp_file, cmp_rc,
             cmp_summary>>
ratioVars == <<fr_value, fr_baseline, fr_result>>
genVars == <<gen_i, pg_doc, mysql_doc>>
cfgVars == <<script, args, env_content, environ, cfg_pc, settings>>
auxVars == <<genVars, cfgVars>>
vars == <<runnerVars, cmpVars, ratioVars, auxVars>>

\* a path at which no file exists
NoFile == [t |-> "no file", v |-> 0]

\* a string whose content the model does not look at
Str == [t |-> "str", v |-> 0]

\* the variables of a script that is not running
RunnerIdle ==
    /\ engine = "none" /\ record_count = 0 /\ pc = "idle"
    /\ pending = "none" /\ conn = "unset" /\ cur = "unset"
    /\ results = EmptyDict /\ written = <<>> /\ trace = <<>>
    /\ exit_code = Unset
    /\ db = EmptyDict /\ batches = <<>> /\ rowcount = EmptyDict
    /\ console = <<>>
CompareIdle ==
    /\ pg_file = NoFile /\ mysql_file = NoFile /\ output_file = None
    /\ comparison = EmptyDict /\ cmp_file = <<>> /\ cmp_rc = Unset
    /\ cmp_summary = EmptyDict
RatioIdle ==
    /\ fr_value = None /\ fr_baseline = None /\ fr_result = Unset
GeneratorsIdle ==
    /\ gen_i = 0 /\ pg_doc = Unset /\ mysql_doc = Unset
ConfigIdle ==
    /\ script = "none" /\ args = EmptyDict /\ env_content = NoFile
    /\ environ = EmptyDict /\ cfg_pc = "idle" /\ settings = EmptyDict

\* ------------------------------------------------- SpecRatio: format_ratio
\* the values a metric read from a results document can have
MetricValues == {Num(n) : n \in 0..MaxMetric} \cup {NA, None}

InitRatio ==
    /\ fr_value \in MetricValues
    /\ fr_baseline \in MetricValues
    /\ fr_result = Unset
    /\ RunnerIdle /\ CompareIdle /\ GeneratorsIdle /\ ConfigIdle

call_format_ratio ==
    /\ fr_result = Unset
    /\ fr_result' = format_ratio(fr_value, fr_baseline)
    /\ UNCHANGED <<fr_value, fr_baseline, runnerVars, cmpVars, auxVars>>

NextRatio == call_format_ratio

SpecRatio == InitRatio /\ [][NextRatio]_vars


\* ------------------------------------------------------- Spec: the runners
\* the statements of main()'s try block, in program order
Steps == <<"connect", "setup_tables", "benchmark_inserts",
           "check_storage_sizes", "benchmark_queries", "benchmark_updates",
           "generate_report">>

StepIndex(step) == CHOOSE i \in 1..Len(Steps) : Steps[i] = step

\* the five named queries, in the order of the runners' queries dict
query_types == <<"simple_key_extraction", "nested_field_access",
                 "array_operations", "complex_conditions", "path_queries">>

QueryIndex(q) == CHOOSE i \in 1..Len(query_types) : query_types[i] = q

\* elapsed times that time.time() differences can give, in hundredths
Elapsed == 0..MaxElapsed

\* the elapsed time of the k-th query when the first one took t
QueryElapsed(t, k) == (t + k - 1) % (MaxElapsed + 1)

Log(op, ev) == [op |-> op, ev |-> ev]

\* n/d to three decimals, in thousandths: round(x, 3)
Round3(n, d) == RoundHalfEven(1000 * n, d)

\* round(size / (1024*1024), 2), in hundredths of a MB
SizeMb(bytes) == Round2(bytes, 1024 * 1024)

\* does the decimal numeral of i start with the digit 1
RECURSIVE StartsWith1(_)
StartsWith1(i) == IF i < 10 THEN i = 1 ELSE StartsWith1(i \div 10)

\* COUNT(*) of each query over rows generated from indices 1..n
QueryCount(q, n) ==
    CASE q = "simple_key_extraction" -> Cardinality({i \in 1..n : i = 12345})
      [] q = "nested_field_access" ->
            Cardinality({i \in 1..n : (i % 100) + 1 = 50})
      [] q = "array_operations" -> n
      [] q = "complex_conditions" ->
            Cardinality({i \in 1..n : i > 500000 /\ (i % 50) + 18 < 30
                                      /\ i % 3 = 0})
      [] q = "path_queries" -> Cardinality({i \in 1..n : StartsWith1(i)})

Min(a, b) == IF a <= b THEN a ELSE b

\* range(start, stop): start, start + 1, ..., stop - 1
range(start, stop) == [k \in 1..(stop - start) |-> start + k - 1]

\* range(start, stop, step) for a positive step
RECURSIVE range_step(_, _, _)
range_step(start, stop, step) ==
    IF start >= stop THEN <<>>
    ELSE <<start>> \o range_step(start + step, stop, step)

\* generate_series(first, last) of the PostgreSQL INSERT ... SELECT
generate_series(first, last) == range(first, last + 1)

\* the statement of PostgreSQLBenchmark.benchmark_inserts that raises
InsertFailures == {"none", "insert json", "insert jsonb", "index"}

\* batch_size of MySQLBenchmark.benchmark_inserts
batch_size == 10000

\* a batch end that stops one index short of the last record
batch_end_drops_last(batch_start, n) == Min(batch_start + batch_size, n)

\* batch_end = min(batch_start + batch_size, record_count + 1)
batch_end(batch_start, n) == Min(batch_start + batch_size, n + 1)

\* the `values` lists that the loop of MySQLBenchmark.benchmark_inserts
\* passes to executemany, one per batch_start, as generator indices
executemany_batches(n) ==
    LET starts == range_step(1, n + 1, batch_size)
    IN  [b \in 1..Len(starts) |-> range(starts[b], batch_end(starts[b], n))]

\* the rows of a sequence of batches, in the order they were inserted
RECURSIVE Flatten(_)
Flatten(lists) ==
    IF lists = <<>> THEN <<>>
    ELSE Head(lists) \o Flatten(Tail(lists))

\* cursor.rowcount of UPDATE ... WHERE id BETWEEN 1 AND 1000 on a table whose
\* rows have the ids 1..Len(table)
update_rowcount(table) ==
    Cardinality({id \in 1..Len(table) : 1 <= id /\ id <= 1000})

\* the variant named by the INSERT 'Winner' line of generate_report
insert_winner(insert) ==
    IF insert.performance_ratio.v > 100 THEN "JSON" ELSE "JSONB"

\* main() of benchmark_runner.py with the try block entered at `step`, which
\* ended with `outcome`: the statement that runs next and what main does
\* once the finally block is over
PostgreSQL_main_no_abort(step, outcome) ==
    IF step = "generate_report"
    THEN [pc |-> "cleanup",
          pending |-> IF outcome = "return" THEN "return 0" ELSE "return 1"]
    ELSE [pc |-> Steps[StepIndex(step) + 1], pending |-> "none"]

PostgreSQL_main_no_finally(step, outcome) ==
    IF outcome = "SystemExit" THEN [pc |-> "exit", pending |-> "SystemExit"]
    ELSE IF outcome = "Exception" THEN [pc |-> "exit", pending |-> "return 1"]
    ELSE IF step = "generate_report"
         THEN [pc |-> "cleanup", pending |-> "return 0"]
         ELSE [pc |-> Steps[StepIndex(step) + 1], pending |-> "none"]

PostgreSQL_main_except_returns_0(step, outcome) ==
    IF outcome = "SystemExit" THEN [pc |-> "cleanup", pending |-> "SystemExit"]
    ELSE IF outcome = "Exception"
         THEN [pc |-> "cleanup", pending |-> "return 0"]
    ELSE IF step = "generate_report"
         THEN [pc |-> "cleanup", pending |-> "return 0"]
         ELSE [pc |-> Steps[StepIndex(step) + 1], pending |-> "none"]

PostgreSQL_main(step, outcome) ==
    IF outcome = "SystemExit" THEN [pc |-> "cleanup", pending |-> "SystemExit"]
    ELSE IF outcome = "Exception"
         THEN [pc |-> "cleanup", pending |-> "return 1"]
    ELSE IF step = "generate_report"
         THEN [pc |-> "cleanup", pending |-> "return 0"]
         ELSE [pc |-> Steps[StepIndex(step) + 1], pending |-> "none"]

\* PostgreSQLBenchmark.__init__: self.results
PostgreSQLBenchmark_init ==
    [test_info |-> [timestamp |-> Str, postgresql_version |-> None,
                    server_info |-> Str],
     insert_performance |-> EmptyDict,
     storage_sizes |-> EmptyDict,
     query_performance |-> EmptyDict,
     update_performance |-> EmptyDict]

\* PostgreSQLBenchmark.connect: `fail` is the statement that raises
PostgreSQLBenchmark_connect ==
    /\ engine = "postgresql" /\ pc = "connect"
    /\ \E fail \in {"none", "connect", "cursor", "execute"} :
        LET outcome == IF fail = "none" THEN "return" ELSE "SystemExit"
            m == PostgreSQL_main("connect", outcome)
        IN  /\ conn' = IF fail = "connect" THEN "unset" ELSE "open"
            /\ cur' = IF fail \in {"connect", "cursor"} THEN "unset" ELSE "open"
            /\ results' = IF fail = "none"
                 THEN [results EXCEPT !.test_info.postgresql_version = Str]
                 ELSE results
            /\ trace' = trace \o <<Log("connect", "call"),
                 Log("connect", IF fail = "none" THEN "return" ELSE "raise")>>
            /\ pc' = m.pc /\ pending' = m.pending
    /\ UNCHANGED <<batches, db, rowcount, console,
                   engine, record_count, written, exit_code, cmpVars, ratioVars, auxVars>>

\* PostgreSQLBenchmark.setup_tables
PostgreSQLBenchmark_setup_tables ==
    /\ engine = "postgresql" /\ pc = "setup_tables"
    /\ \E fail \in BOOLEAN :
        LET outcome == IF fail THEN "Exception" ELSE "return"
            m == PostgreSQL_main("setup_tables", outcome)
        IN  /\ db' = IF fail THEN db ELSE [json |-> <<>>, jsonb |-> <<>>]
            /\ trace' = trace \o <<Log("setup_tables", "call"),
                 Log("setup_tables", IF fail THEN "raise" ELSE "return")>>
            /\ pc' = m.pc /\ pending' = m.pending
    /\ UNCHANGED <<batches, rowcount, console,
                   engine, record_count, conn, cur, results, written,
                   exit_code, cmpVars, ratioVars, auxVars>>

\* PostgreSQLBenchmark.benchmark_inserts: tj, tb are the two measured times,
\* `fail` the statement that raises; a zero time raises ZeroDivisionError
PostgreSQLBenchmark_benchmark_inserts ==
    /\ engine = "postgresql" /\ pc = "benchmark_inserts"
    /\ \E tj \in Elapsed, tb \in Elapsed, fail \in InsertFailures :
        LET recorded == fail \notin {"insert json", "insert jsonb"}
                        /\ tj # 0 /\ tb # 0
            rows == generate_series(1, record_count)
            raised == ~recorded \/ fail = "index"
            m == PostgreSQL_main("benchmark_inserts",
                                 IF raised THEN "Exception" ELSE "return")
        IN  /\ db' = [db EXCEPT
                        !.json = IF fail = "insert json" THEN @ ELSE rows,
                        !.jsonb = IF fail \in {"insert json", "insert jsonb"}
                                  THEN @ ELSE rows]
            /\ results' = IF recorded
                 THEN [results EXCEPT !.insert_performance =
                        [record_count |-> Num(record_count),
                         json_time_seconds |-> Num(tj),
                         jsonb_time_seconds |-> Num(tb),
                         json_records_per_second |->
                             Num((100 * record_count) \div tj),
                         jsonb_records_per_second |->
                             Num((100 * record_count) \div tb),
                         performance_ratio |-> Num(Round2(tj, tb))]]
                 ELSE results
            /\ trace' = trace \o <<Log("benchmark_inserts", "call"),
                 Log("benchmark_inserts", IF raised THEN "raise" ELSE "return")>>
            /\ pc' = m.pc /\ pending' = m.pending
    /\ UNCHANGED <<batches, rowcount, console,
                   engine, record_count, conn, cur, written, exit_code,
                   cmpVars, ratioVars, auxVars>>

\* one entry of storage_sizes for a relation of `total` bytes, `data` of them
\* in the heap
StorageEntry(total, data) ==
    [total_size_bytes |-> Num(total), data_size_bytes |-> Num(data),
     total_size_mb |-> Num(SizeMb(total)), data_size_mb |-> Num(SizeMb(data))]

\* PostgreSQLBenchmark.check_storage_sizes: pj, pb are the sizes of the two
\* relations in 8 kB pages, one page of each being the primary key index
PostgreSQLBenchmark_check_storage_sizes ==
    /\ engine = "postgresql" /\ pc = "check_storage_sizes"
    /\ \E pj \in 1..MaxPages, pb \in 1..MaxPages, fail \in BOOLEAN :
        LET m == PostgreSQL_main("check_storage_sizes",
                                 IF fail THEN "Exception" ELSE "return")
        IN  /\ results' = IF fail THEN results
                 ELSE [results EXCEPT !.storage_sizes =
                        [json |-> StorageEntry(8192 * pj, 8192 * (pj - 1)),
                         jsonb |-> StorageEntry(8192 * pb, 8192 * (pb - 1)),
                         size_ratio |-> Num(Round3(8192 * pb, 8192 * pj))]]
            /\ trace' = trace \o <<Log("check_storage_sizes", "call"),
                 Log("check_storage_sizes", IF fail THEN "raise" ELSE "return")>>
            /\ pc' = m.pc /\ pending' = m.pending
    /\ UNCHANGED <<batches, db, rowcount, console,
                   engine, record_count, conn, cur, written, exit_code,
                   cmpVars, ratioVars, auxVars>>

\* PostgreSQLBenchmark.benchmark_queries: the loop records the queries before
\* the one whose statement raises (failAt = 6: none raises)
PostgreSQLBenchmark_benchmark_queries ==
    /\ engine = "postgresql" /\ pc = "benchmark_queries"
    /\ \E tj \in Elapsed, tb \in Elapsed, failAt \in 1..(Len(query_types) + 1) :
        LET raised == failAt <= Len(query_types)
            done == {query_types[k] : k \in 1..(failAt - 1)}
            entry(q) ==
                LET json_time == QueryElapsed(tj, QueryIndex(q))
                    jsonb_time == QueryElapsed(tb, QueryIndex(q))
                IN  [description |-> Str,
                     json_time_ms |-> Num(json_time),
                     jsonb_time_ms |-> Num(jsonb_time),
                     json_result_count |-> Num(QueryCount(q, record_count)),
                     jsonb_result_count |-> Num(QueryCount(q, record_count)),
                     performance_ratio |->
                         IF jsonb_time > 0 THEN Num(Round2(json_time, jsonb_time))
                         ELSE Num(0)]
            m == PostgreSQL_main("benchmark_queries",
                                 IF raised THEN "Exception" ELSE "return")
        IN  /\ results' = [results EXCEPT !.query_performance =
                             [q \in done |-> entry(q)]]
            /\ trace' = trace \o <<Log("benchmark_queries", "call"),
                 Log("benchmark_queries", IF raised THEN "raise" ELSE "return")>>
            /\ pc' = m.pc /\ pending' = m.pending
    /\ UNCHANGED <<batches, db, rowcount, console,
                   engine, record_count, conn, cur, written, exit_code,
                   cmpVars, ratioVars, auxVars>>

\* PostgreSQLBenchmark.benchmark_updates: a zero jsonb time raises
\* ZeroDivisionError in performance_ratio
PostgreSQLBenchmark_benchmark_updates ==
    /\ engine = "postgresql" /\ pc = "benchmark_updates"
    /\ \E tj \in Elapsed, tb \in Elapsed, fail \in BOOLEAN :
        LET raised == fail \/ tb = 0
            m == PostgreSQL_main("benchmark_updates",
                                 IF raised THEN "Exception" ELSE "return")
        IN  /\ rowcount' = IF fail THEN rowcount
                 ELSE [json |-> update_rowcount(db.json),
                       jsonb |-> update_rowcount(db.jsonb)]
            /\ results' = IF raised THEN results
                 ELSE [results EXCEPT !.update_performance =
                        [records_updated |-> Num(1000),
                         json_time_ms |-> Num(tj),
                         jsonb_time_ms |-> Num(tb),
                         performance_ratio |-> Num(Round2(tj, tb))]]
            /\ trace' = trace \o <<Log("benchmark_updates", "call"),
                 Log("benchmark_updates", IF raised THEN "raise" ELSE "return")>>
            /\ pc' = m.pc /\ pending' = m.pending
    /\ UNCHANGED <<batches, db, console,
                   engine, record_count, conn, cur, written, exit_code,
                   cmpVars, ratioVars, auxVars>>


\* the console summary of PostgreSQLBenchmark.generate_report raises KeyError
\* when a key it prints is missing from self.results
PostgreSQL_summary_raises(r) ==
    \/ ~({"json_time_seconds", "json_records_per_second",
          "jsonb_time_seconds", "jsonb_records_per_second",
          "performance_ratio"} \subseteq DOMAIN r.insert_performance)
    \/ ~({"json", "jsonb", "size_ratio"} \subseteq DOMAIN r.storage_sizes)
    \/ ~("performance_ratio" \in DOMAIN r.update_performance)

\* PostgreSQLBenchmark.generate_report: open() may fail; once the file is
\* open the whole of self.results is dumped, then the summary is printed
PostgreSQLBenchmark_generate_report ==
    /\ engine = "postgresql" /\ pc = "generate_report"
    /\ \E openFails \in BOOLEAN :
        LET raised == openFails \/ PostgreSQL_summary_raises(results)
            m == PostgreSQL_main("generate_report",
                                 IF raised THEN "Exception" ELSE "return")
        IN  /\ console' = IF raised THEN console
                 ELSE Append(console,
                             insert_winner(results.insert_performance))
            /\ written' = IF openFails THEN written ELSE Append(written, results)
            /\ trace' = trace \o <<Log("generate_report", "call")>>
                 \o (IF openFails THEN <<>> ELSE <<Log("generate_report", "write")>>)
                 \o <<Log("generate_report", IF raised THEN "raise" ELSE "return")>>
            /\ pc' = m.pc /\ pending' = m.pending
    /\ UNCHANGED <<batches, db, rowcount,
                   engine, record_count, conn, cur, results, exit_code,
                   cmpVars, ratioVars, auxVars>>

\* cleanup that lets the failure of its DROP statements propagate: main's
\* finally block is left before close() runs
PostgreSQLBenchmark_cleanup_propagates ==
    /\ engine = "postgresql" /\ pc = "cleanup"
    /\ \E fail \in BOOLEAN :
        LET raised == cur = "open" /\ fail
        IN  /\ db' = IF cur = "open" /\ ~fail THEN EmptyDict ELSE db
            /\ trace' = trace \o <<Log("cleanup", "call")>>
                 \o (IF raised THEN <<Log("cleanup", "DROP raised"),
                                      Log("cleanup", "raise")>>
                     ELSE <<Log("cleanup", "return")>>)
            /\ pc' = IF raised THEN "exit" ELSE "close"
            /\ pending' = IF raised THEN "return 1" ELSE pending
    /\ UNCHANGED <<batches, rowcount, console,
                   engine, record_count, conn, cur, results, written,
                   exit_code, cmpVars, ratioVars, auxVars>>

\* cleanup that clears the results record
PostgreSQLBenchmark_cleanup_resets_results ==
    /\ engine = "postgresql" /\ pc = "cleanup"
    /\ results' = PostgreSQLBenchmark_init
    /\ db' = EmptyDict
    /\ trace' = trace \o <<Log("cleanup", "call"), Log("cleanup", "return")>>
    /\ pc' = "close"
    /\ UNCHANGED <<batches, rowcount, console,
                   engine, record_count, pending, conn, cur, written,
                   exit_code, cmpVars, ratioVars, auxVars>>

\* PostgreSQLBenchmark.cleanup: the DROP statements run only when self.cur
\* exists; their failure is caught and printed
PostgreSQLBenchmark_cleanup ==
    /\ engine = "postgresql" /\ pc = "cleanup"
    /\ \E fail \in BOOLEAN :
        LET caught == cur = "open" /\ fail
        IN  /\ db' = IF cur = "open" /\ ~fail THEN EmptyDict ELSE db
            /\ trace' = trace \o <<Log("cleanup", "call")>>
                 \o (IF caught THEN <<Log("cleanup", "DROP raised")>> ELSE <<>>)
                 \o <<Log("cleanup", "return")>>
    /\ pc' = "close"
    /\ UNCHANGED <<batches, rowcount, console,
                   engine, record_count, pending, conn, cur, results, written,
                   exit_code, cmpVars, ratioVars, auxVars>>

\* PostgreSQLBenchmark.close: cur.close() then conn.close() inside one try;
\* an exception of the first skips the second
PostgreSQLBenchmark_close ==
    /\ engine = "postgresql" /\ pc = "close"
    /\ \E curFails \in BOOLEAN, connFails \in BOOLEAN :
        LET curRaised == cur = "open" /\ curFails
            connRaised == ~curRaised /\ conn = "open" /\ connFails
        IN  /\ cur' = IF cur = "open" /\ ~curRaised THEN "closed" ELSE cur
            /\ conn' = IF conn = "open" /\ ~curRaised /\ ~connRaised
                       THEN "closed" ELSE conn
            /\ trace' = trace \o <<Log("close", "call")>>
                 \o (IF curRaised THEN <<Log("close", "cur.close raised")>>
                     ELSE IF connRaised THEN <<Log("close", "conn.close raised")>>
                     ELSE <<>>)
                 \o <<Log("close", "return")>>
    /\ pc' = "exit"
    /\ UNCHANGED <<batches, db, rowcount, console,
                   engine, record_count, pending, results, written, exit_code,
                   cmpVars, ratioVars, auxVars>>

\* the end of main() of benchmark_runner.py and sys.exit(main()): the pending
\* return value, or the SystemExit(1) of connect, becomes the exit code
PostgreSQL_exit ==
    /\ engine = "postgresql" /\ pc = "exit"
    /\ exit_code' = IF pending = "return 0" THEN Num(0) ELSE Num(1)
    /\ trace' = Append(trace, Log("main", "exit"))
    /\ pc' = "done"
    /\ UNCHANGED <<batches, db, rowcount, console,
                   engine, record_count, pending, conn, cur, results, written,
                   cmpVars, ratioVars, auxVars>>

\* ---- mysql_benchmark_runner.py: the same main() and class, one JSON table

\* main() of mysql_benchmark_runner.py, as PostgreSQL_main
MySQL_main(step, outcome) ==
    IF outcome = "SystemExit" THEN [pc |-> "cleanup", pending |-> "SystemExit"]
    ELSE IF outcome = "Exception"
         THEN [pc |-> "cleanup", pending |-> "return 1"]
    ELSE IF step = "generate_report"
         THEN [pc |-> "cleanup", pending |-> "return 0"]
         ELSE [pc |-> Steps[StepIndex(step) + 1], pending |-> "none"]

\* MySQLBenchmark.__init__: self.results
MySQLBenchmark_init ==
    [test_info |-> [timestamp |-> Str, mysql_version |-> None,
                    server_info |-> Str],
     insert_performance |-> EmptyDict,
     storage_sizes |-> EmptyDict,
     query_performance |-> EmptyDict,
     update_performance |-> EmptyDict]

\* MySQLBenchmark.connect: `fail` is the statement that raises
MySQLBenchmark_connect ==
    /\ engine = "mysql" /\ pc = "connect"
    /\ \E fail \in {"none", "connect", "cursor", "execute"} :
        LET outcome == IF fail = "none" THEN "return" ELSE "SystemExit"
            m == MySQL_main("connect", outcome)
        IN  /\ conn' = IF fail = "connect" THEN "unset" ELSE "open"
            /\ cur' = IF fail \in {"connect", "cursor"} THEN "unset" ELSE "open"
            /\ results' = IF fail = "none"
                 THEN [results EXCEPT !.test_info.mysql_version = Str]
                 ELSE results
            /\ trace' = trace \o <<Log("connect", "call"),
                 Log("connect", IF fail = "none" THEN "return" ELSE "raise")>>
            /\ pc' = m.pc /\ pending' = m.pending
    /\ UNCHANGED <<batches, db, rowcount, console,
                   engine, record_count, written, exit_code, cmpVars, ratioVars, auxVars>>

\* MySQLBenchmark.setup_tables
MySQLBenchmark_setup_tables ==
    /\ engine = "mysql" /\ pc = "setup_tables"
    /\ \E fail \in BOOLEAN :
        LET outcome == IF fail THEN "Exception" ELSE "return"
            m == MySQL_main("setup_tables", outcome)
        IN  /\ db' = IF fail THEN db ELSE [json |-> <<>>]
            /\ trace' = trace \o <<Log("setup_tables", "call"),
                 Log("setup_tables", IF fail THEN "raise" ELSE "return")>>
            /\ pc' = m.pc /\ pending' = m.pending
    /\ UNCHANGED <<batches, rowcount, console,
                   engine, record_count, conn, cur, results, written,
                   exit_code, cmpVars, ratioVars, auxVars>>

\* MySQLBenchmark.benchmark_inserts: t is the measured time of the batched
\* inserts, failAt the executemany call that raises (0: none does), the rows
\* of the calls before it staying in the table (autocommit); a zero time
\* raises ZeroDivisionError
MySQLBenchmark_benchmark_inserts ==
    /\ engine = "mysql" /\ pc = "benchmark_inserts"
    /\ \E t \in Elapsed, failAt \in 0..Len(executemany_batches(record_count)) :
        LET planned == executemany_batches(record_count)
            executed == IF failAt = 0 THEN planned
                        ELSE SubSeq(planned, 1, failAt - 1)
            recorded == failAt = 0 /\ t # 0
            raised == ~recorded
            m == MySQL_main("benchmark_inserts",
                            IF raised THEN "Exception" ELSE "return")
        IN  /\ batches' = batches \o executed
            /\ db' = [db EXCEPT !.json = @ \o Flatten(executed)]
            /\ results' = IF recorded
                 THEN [results EXCEPT !.insert_performance =
                        [record_count |-> Num(record_count),
                         json_time_seconds |-> Num(t),
                         json_records_per_second |->
                             Num((100 * record_count) \div t)]]
                 ELSE results
            /\ trace' = trace \o <<Log("benchmark_inserts", "call"),
                 Log("benchmark_inserts", IF raised THEN "raise" ELSE "return")>>
            /\ pc' = m.pc /\ pending' = m.pending
    /\ UNCHANGED <<rowcount, console,
                   engine, record_count, conn, cur, written, exit_code,
                   cmpVars, ratioVars, auxVars>>

\* MySQLBenchmark.check_storage_sizes: fetchone() gives no row (d = 0) or the
\* row of json_test, d data pages of 16 kB and one page for each of the two
\* secondary indexes; without a row storage_sizes is left as it was
MySQLBenchmark_check_storage_sizes ==
    /\ engine = "mysql" /\ pc = "check_storage_sizes"
    /\ \E d \in 0..MaxPages, fail \in BOOLEAN :
        LET m == MySQL_main("check_storage_sizes",
                            IF fail THEN "Exception" ELSE "return")
        IN  /\ results' = IF fail \/ d = 0 THEN results
                 ELSE [results EXCEPT !.storage_sizes =
                        [json |-> StorageEntry(16384 * (d + 2), 16384 * d)]]
            /\ trace' = trace \o <<Log("check_storage_sizes", "call"),
                 Log("check_storage_sizes", IF fail THEN "raise" ELSE "return")>>
            /\ pc' = m.pc /\ pending' = m.pending
    /\ UNCHANGED <<batches, db, rowcount, console,
                   engine, record_count, conn, cur, written, exit_code,
                   cmpVars, ratioVars, auxVars>>

\* MySQLBenchmark.benchmark_queries: the loop records the queries before the
\* one whose statement raises (failAt = 6: none raises)
MySQLBenchmark_benchmark_queries ==
    /\ engine = "mysql" /\ pc = "benchmark_queries"
    /\ \E t \in Elapsed, failAt \in 1..(Len(query_types) + 1) :
        LET raised == failAt <= Len(query_types)
            done == {query_types[k] : k \in 1..(failAt - 1)}
            entry(q) ==
                [description |-> Str,
                 json_time_ms |-> Num(QueryElapsed(t, QueryIndex(q))),
                 json_result_count |-> Num(QueryCount(q, record_count))]
            m == MySQL_main("benchmark_queries",
                            IF raised THEN "Exception" ELSE "return")
        IN  /\ results' = [results EXCEPT !.query_performance =
                             [q \in done |-> entry(q)]]
            /\ trace' = trace \o <<Log("benchmark_queries", "call"),
                 Log("benchmark_queries", IF raised THEN "raise" ELSE "return")>>
            /\ pc' = m.pc /\ pending' = m.pending
    /\ UNCHANGED <<batches, db, rowcount, console,
                   engine, record_count, conn, cur, written, exit_code,
                   cmpVars, ratioVars, auxVars>>

\* MySQLBenchmark.benchmark_updates
MySQLBenchmark_benchmark_updates ==
    /\ engine = "mysql" /\ pc = "benchmark_updates"
    /\ \E t \in Elapsed, fail \in BOOLEAN :
        LET m == MySQL_main("benchmark_updates",
                            IF fail THEN "Exception" ELSE "return")
        IN  /\ rowcount' = IF fail THEN rowcount
                 ELSE [json |-> update_rowcount(db.json)]
            /\ results' = IF fail THEN results
                 ELSE [results EXCEPT !.update_performance =
                        [records_updated |-> Num(1000),
                         json_time_ms |-> Num(t)]]
            /\ trace' = trace \o <<Log("benchmark_updates", "call"),
                 Log("benchmark_updates", IF fail THEN "raise" ELSE "return")>>
            /\ pc' = m.pc /\ pending' = m.pending
    /\ UNCHANGED <<batches, db, console,
                   engine, record_count, conn, cur, written, exit_code,
                   cmpVars, ratioVars, auxVars>>

\* the console summary of MySQLBenchmark.generate_report raises KeyError when
\* a key it prints is missing from self.results
MySQL_summary_raises(r) ==
    \/ ~({"record_count", "json_time_seconds", "json_records_per_second"}
           \subseteq DOMAIN r.insert_performance)
    \/ ~("json" \in DOMAIN r.storage_sizes)
    \/ ~({"records_updated", "json_time_ms"}
           \subseteq DOMAIN r.update_performance)

\* MySQLBenchmark.generate_report: open() may fail; once the file is open
\* the whole of self.results is dumped, then the summary is printed
MySQLBenchmark_generate_report ==
    /\ engine = "mysql" /\ pc = "generate_report"
    /\ \E openFails \in BOOLEAN :
        LET raised == openFails \/ MySQL_summary_raises(results)
            m == MySQL_main("generate_report",
                                 IF raised THEN "Exception" ELSE "return")
        IN  /\ written' = IF openFails THEN written ELSE Append(written, results)
            /\ trace' = trace \o <<Log("generate_report", "call")>>
                 \o (IF openFails THEN <<>> ELSE <<Log("generate_report", "write")>>)
                 \o <<Log("generate_report", IF raised THEN "raise" ELSE "return")>>
            /\ pc' = m.pc /\ pending' = m.pending
    /\ UNCHANGED <<batches, db, rowcount, console,
                   engine, record_count, conn, cur, results, exit_code,
                   cmpVars, ratioVars, auxVars>>

\* MySQLBenchmark.cleanup: the DROP statement runs only when self.cur exists;
\* its failure is caught and printed
MySQLBenchmark_cleanup ==
    /\ engine = "mysql" /\ pc = "cleanup"
    /\ \E fail \in BOOLEAN :
        LET caught == cur = "open" /\ fail
        IN  /\ db' = IF cur = "open" /\ ~fail THEN EmptyDict ELSE db
            /\ trace' = trace \o <<Log("cleanup", "call")>>
                 \o (IF caught THEN <<Log("cleanup", "DROP raised")>> ELSE <<>>)
                 \o <<Log("cleanup", "return")>>
    /\ pc' = "close"
    /\ UNCHANGED <<batches, rowcount, console,
                   engine, record_count, pending, conn, cur, results, written,
                   exit_code, cmpVars, ratioVars, auxVars>>

\* MySQLBenchmark.close: cur.close() then conn.close() inside one try; an
\* exception of the first skips the second
MySQLBenchmark_close ==
    /\ engine = "mysql" /\ pc = "close"
    /\ \E curFails \in BOOLEAN, connFails \in BOOLEAN :
        LET curRaised == cur = "open" /\ curFails
            connRaised == ~curRaised /\ conn = "open" /\ connFails
        IN  /\ cur' = IF cur = "open" /\ ~curRaised THEN "closed" ELSE cur
            /\ conn' = IF conn = "open" /\ ~curRaised /\ ~connRaised
                       THEN "closed" ELSE conn
            /\ trace' = trace \o <<Log("close", "call")>>
                 \o (IF curRaised THEN <<Log("close", "cur.close raised")>>
                     ELSE IF connRaised THEN <<Log("close", "conn.close raised")>>
                     ELSE <<>>)
                 \o <<Log("close", "return")>>
    /\ pc' = "exit"
    /\ UNCHANGED <<batches, db, rowcount, console,
                   engine, record_count, pending, results, written, exit_code,
                   cmpVars, ratioVars, auxVars>>

\* the end of main() of mysql_benchmark_runner.py and sys.exit(main())
MySQL_exit ==
    /\ engine = "mysql" /\ pc = "exit"
    /\ exit_code' = IF pending = "return 0" THEN Num(0) ELSE Num(1)
    /\ trace' = Append(trace, Log("main", "exit"))
    /\ pc' = "done"
    /\ UNCHANGED <<batches, db, rowcount, console,
                   engine, record_count, pending, conn, cur, results, written,
                   cmpVars, ratioVars, auxVars>>

Engines == {"postgresql", "mysql"}

Init ==
    /\ engine \in Engines
    /\ record_count \in 0..MaxRecords
    /\ pc = "connect" /\ pending = "none"
    /\ conn = "unset" /\ cur = "unset"
    /\ results = IF engine = "postgresql" THEN PostgreSQLBenchmark_init
                 ELSE MySQLBenchmark_init
    /\ written = <<>> /\ trace = <<>> /\ exit_code = Unset
    /\ db = EmptyDict /\ batches = <<>> /\ rowcount = EmptyDict
    /\ console = <<>>
    /\ CompareIdle /\ RatioIdle /\ GeneratorsIdle /\ ConfigIdle

Next ==
    \/ PostgreSQLBenchmark_connect
    \/ PostgreSQLBenchmark_setup_tables
    \/ PostgreSQLBenchmark_benchmark_inserts
    \/ PostgreSQLBenchmark_check_storage_sizes
    \/ PostgreSQLBenchmark_benchmark_queries
    \/ PostgreSQLBenchmark_benchmark_updates
    \/ PostgreSQLBenchmark_generate_report
    \/ PostgreSQLBenchmark_cleanup
    \/ PostgreSQLBenchmark_close
    \/ PostgreSQL_exit
    \/ MySQLBenchmark_connect
    \/ MySQLBenchmark_setup_tables
    \/ MySQLBenchmark_benchmark_inserts
    \/ MySQLBenchmark_check_storage_sizes
    \/ MySQLBenchmark_benchmark_queries
    \/ MySQLBenchmark_benchmark_updates
    \/ MySQLBenchmark_generate_report
    \/ MySQLBenchmark_cleanup
    \/ MySQLBenchmark_close
    \/ MySQL_exit

Spec == Init /\ [][Next]_vars


\* -------------------------- SpecInserts: MySQLBenchmark.benchmark_inserts
\* the record counts around the multiples of batch_size
MaxBatches == 2
MaxSpread == 5
InsertCounts ==
    {n \in {k * batch_size + d : k \in 0..MaxBatches,
                                 d \in (0 - MaxSpread)..MaxSpread} : n >= 0}

\* a MySQL run that has connected and created its empty table, about to
\* call benchmark_inserts(record_count)
InitInserts ==
    /\ engine = "mysql"
    /\ record_count \in InsertCounts
    /\ pc = "benchmark_inserts" /\ pending = "none"
    /\ conn = "open" /\ cur = "open"
    /\ results = [MySQLBenchmark_init EXCEPT !.test_info.mysql_version = Str]
    /\ written = <<>> /\ exit_code = Unset
    /\ trace = <<Log("connect", "call"), Log("connect", "return"),
                 Log("setup_tables", "call"), Log("setup_tables", "return")>>
    /\ db = [json |-> <<>>] /\ batches = <<>> /\ rowcount = EmptyDict
    /\ console = <<>>
    /\ CompareIdle /\ RatioIdle /\ GeneratorsIdle /\ ConfigIdle

NextInserts == MySQLBenchmark_benchmark_inserts

SpecInserts == InitInserts /\ [][NextInserts]_vars


\* ------------------------------- SpecGenerators: the two generate_test_json
\* the characters of a decimal numeral
Digits == <<"0", "1", "2", "3", "4", "5", "6", "7", "8", "9">>

\* the numeral of n >= 0 as '%s' and str() write it: a sequence of digits
RECURSIVE Decimal(_)
Decimal(n) ==
    IF n < 10 THEN <<Digits[n + 1]>>
    ELSE Decimal(n \div 10) \o <<Digits[(n % 10) + 1]>>

\* the numeral of n as the format specification :02d writes it
Decimal02d(n) ==
    IF n < 10 THEN <<"0">> \o Decimal(n) ELSE Decimal(n)

ValueError == [t |-> "ValueError", v |-> 0]

\* the number a numeral is read as, ValueError when it is not a numeral
\* is a string a decimal numeral
IsNumeral(str) ==
    str # <<>> /\ \A k \in 1..Len(str) : \E d \in 1..10 : Digits[d] = str[k]

\* the number that a decimal numeral is read as
RECURSIVE ParseInt(_)
ParseInt(str) ==
    LET last == (CHOOSE d \in 1..10 : Digits[d] = str[Len(str)]) - 1
    IN  IF Len(str) = 1 THEN last
        ELSE 10 * ParseInt(SubSeq(str, 1, Len(str) - 1)) + last

\* the value of the JSON literals true and false
JsonLiteral(text) == text = "true"

\* the SQL function generate_test_json(i) of setup_tables: the document that
\* the text built by format() is read as
PostgreSQL_generate_test_json(i) ==
    [user_id |-> ParseInt(Decimal(i)),
     username |-> <<"user_">> \o Decimal(i),
     profile |->
        [name |-> <<"User ">> \o Decimal(i),
         age |-> ParseInt(Decimal((i % 50) + 18)),
         city |-> <<"City_">> \o Decimal((i % 100) + 1),
         preferences |->
            [theme |-> CASE i % 3 = 0 -> "dark"
                         [] i % 3 = 1 -> "light"
                         [] OTHER -> "auto",
             language |-> "en",
             notifications |->
                JsonLiteral(IF i % 2 = 0 THEN "true" ELSE "false")]],
     orders |->
        <<[id |-> ParseInt(Decimal(i * 2)),
           amount |-> ParseInt(Decimal((i % 1000) + 10)),
           status |-> "completed"],
          [id |-> ParseInt(Decimal((i * 2) + 1)),
           amount |-> ParseInt(Decimal((i % 500) + 5)),
           status |-> "pending"]>>,
     metadata |->
        [last_login |-> <<"2024-12-">> \o Decimal((i % 30) + 1),
         ip_address |-> <<"192.168.1.">> \o Decimal((i % 254) + 1),
         user_agent |-> <<"Browser_">> \o Decimal((i % 10) + 1)]]

\* MySQLBenchmark.generate_test_json(i): the document that the text written
\* by json.dumps is read as
MySQLBenchmark_generate_test_json(i) ==
    LET theme_options == <<"dark", "light", "auto">>
        notifications == IF i % 2 = 0 THEN "true" ELSE "false"
    IN  [user_id |-> ParseInt(Decimal(i)),
         username |-> <<"user_">> \o Decimal(i),
         profile |->
            [name |-> <<"User ">> \o Decimal(i),
             age |-> ParseInt(Decimal((i % 50) + 18)),
             city |-> <<"City_">> \o Decimal((i % 100) + 1),
             preferences |->
                [theme |-> theme_options[(i % 3) + 1],
                 language |-> "en",
                 notifications |-> notifications = "true"]],
         orders |->
            <<[id |-> ParseInt(Decimal(i * 2)),
               amount |-> ParseInt(Decimal((i % 1000) + 10)),
               status |-> "completed"],
              [id |-> ParseInt(Decimal((i * 2) + 1)),
               amount |-> ParseInt(Decimal((i % 500) + 5)),
               status |-> "pending"]>>,
         metadata |->
            [last_login |-> <<"2024-12-">> \o Decimal02d((i % 30) + 1),
             ip_address |-> <<"192.168.1.">> \o Decimal((i % 254) + 1),
             user_agent |-> <<"Browser_">> \o Decimal((i % 10) + 1)]]

MaxIndex == 1010

InitGenerators ==
    /\ gen_i \in 1..MaxIndex
    /\ pg_doc = Unset /\ mysql_doc = Unset
    /\ RunnerIdle /\ CompareIdle /\ RatioIdle /\ ConfigIdle

call_generate_test_json ==
    /\ pg_doc = Unset
    /\ pg_doc' = PostgreSQL_generate_test_json(gen_i)
    /\ mysql_doc' = MySQLBenchmark_generate_test_json(gen_i)
    /\ UNCHANGED <<gen_i, runnerVars, cmpVars, ratioVars, cfgVars>>

NextGenerators == call_generate_test_json

SpecGenerators == InitGenerators /\ [][NextGenerators]_vars


\* ------------------- SpecConfig: main() up to the settings of the run
\* Strings are sequences of tokens: the characters " ", "#", "=" and the
\* digits, and words that are never taken apart.
Text(str) == [t |-> "text", v |-> str]

OSError == [t |-> "OSError", v |-> 0]

\* the truth value of None, a number or a string
IsTrue(x) ==
    ~(x.t = "None" \/ (x.t = "num" /\ x.v = 0) \/ (x.t = "text" /\ x.v = <<>>))

\* a or b
Or(a, b) == IF IsTrue(a) THEN a ELSE b

\* str.strip(), for the whitespace " "
RECURSIVE lstrip(_)
lstrip(str) ==
    IF str # <<>> /\ Head(str) = " " THEN lstrip(Tail(str)) ELSE str
RECURSIVE rstrip(_)
rstrip(str) ==
    IF str # <<>> /\ str[Len(str)] = " "
    THEN rstrip(SubSeq(str, 1, Len(str) - 1)) ELSE str
strip(str) == rstrip(lstrip(str))

\* str.split('=', 1) of a string that holds an '='
split_first(str) ==
    LET at == CHOOSE k \in 1..Len(str) :
                  str[k] = "=" /\ \A j \in 1..(k - 1) : str[j] # "="
    IN  [key |-> SubSeq(str, 1, at - 1), value |-> SubSeq(str, at + 1, Len(str))]

\* os.environ[key] = value
SetEnv(env, key, value) ==
    [k \in DOMAIN env \cup {key} |-> IF k = key THEN value ELSE env[k]]

\* the body of load_env_file's loop without its `not in os.environ` test
load_env_line_overrides(env, raw) ==
    LET line == strip(raw)
    IN  IF line # <<>> /\ Head(line) # "#" /\ \E k \in 1..Len(line) : line[k] = "="
        THEN LET kv == split_first(line)
             IN  IF strip(kv.key) = <<>> THEN [environ |-> env, raised |-> TRUE]
                 ELSE [environ |-> SetEnv(env, strip(kv.key), strip(kv.value)),
                       raised |-> FALSE]
        ELSE [environ |-> env, raised |-> FALSE]

\* the body of load_env_file's loop for one line of the file: the
\* environment after it, and whether os.environ refused an empty name
load_env_line(env, raw) ==
    LET line == strip(raw)
    IN  IF line # <<>> /\ Head(line) # "#" /\ \E k \in 1..Len(line) : line[k] = "="
        THEN LET kv == split_first(line)
             IN  IF strip(kv.key) \in DOMAIN env
                 THEN [environ |-> env, raised |-> FALSE]
                 ELSE IF strip(kv.key) = <<>>
                 THEN [environ |-> env, raised |-> TRUE]
                 ELSE [environ |-> SetEnv(env, strip(kv.key), strip(kv.value)),
                       raised |-> FALSE]
        ELSE [environ |-> env, raised |-> FALSE]

\* the loop of load_env_file over the lines of the file
RECURSIVE load_env_lines(_, _)
load_env_lines(env, lines) ==
    IF lines = <<>> THEN [environ |-> env, raised |-> FALSE]
    ELSE LET r == load_env_line(env, Head(lines))
         IN  IF r.raised THEN r ELSE load_env_lines(r.environ, Tail(lines))

\* load_env_file(env_file) where `content` is what the path holds
load_env_file(env_file, content, env) ==
    IF env_file = "/dev/null" THEN [environ |-> env, raised |-> FALSE]
    ELSE IF content.t = "no file" THEN [environ |-> env, raised |-> FALSE]
    ELSE load_env_lines(env, content.v)

\* the names that differ between the two runners
OutputVar(runner) ==
    IF runner = "postgresql" THEN <<"BENCHMARK_OUTPUT_FILE">>
    ELSE <<"MYSQL_BENCHMARK_OUTPUT_FILE">>
DefaultOutput(runner) ==
    IF runner = "postgresql" THEN <<"benchmark_results.json">>
    ELSE <<"mysql_benchmark_results.json">>

\* int(os.getenv('BENCHMARK_RECORDS', 1000000))
env_records(env) ==
    IF <<"BENCHMARK_RECORDS">> \in DOMAIN env
    THEN IF IsNumeral(env[<<"BENCHMARK_RECORDS">>])
         THEN Num(ParseInt(env[<<"BENCHMARK_RECORDS">>]))
         ELSE ValueError
    ELSE Num(1000000)

\* os.getenv(<output variable>, <default name>)
env_output(runner, env) ==
    IF OutputVar(runner) \in DOMAIN env THEN Text(env[OutputVar(runner)])
    ELSE Text(DefaultOutput(runner))

\* the lines an env file is made of
EnvLines(runner) ==
    {<<"BENCHMARK_RECORDS", "=", "2">>,
     <<" ", "BENCHMARK_RECORDS", " ", "=", " ", "1", "0", " ">>,
     <<"#", "BENCHMARK_RECORDS", "=", "7">>,
     OutputVar(runner) \o <<"=", "file.json">>,
     <<"PG_HOST", "=", "a", "=", "b">>,
     <<"PG_HOST">>,
     <<" ">>,
     <<"=", "1">>}

MaxLines == 2

RECURSIVE FilesOf(_, _)
FilesOf(lines, n) ==
    IF n = 0 THEN {<<>>}
    ELSE LET shorter == FilesOf(lines, n - 1)
         IN  shorter \cup {Append(f, l) : f \in shorter, l \in lines}

\* the environment the process may be started with
PresetEnv(runner) ==
    [k \in {<<"BENCHMARK_RECORDS">>, OutputVar(runner), <<"PG_HOST">>} |->
        IF k = <<"BENCHMARK_RECORDS">> THEN <<"3">>
        ELSE IF k = <<"PG_HOST">> THEN <<"h">> ELSE <<"env.json">>]

InitConfig ==
    /\ script \in Engines
    /\ args \in [records : {None} \cup {Num(n) : n \in 0..MaxRecords},
                  env_file : {".env", "/dev/null"},
                  output : {None, Text(<<>>), Text(<<"cli.json">>)}]
    /\ env_content \in {NoFile} \cup
          {[t |-> "file", v |-> f] : f \in FilesOf(EnvLines(script), MaxLines)}
    /\ environ \in {[k \in keys |-> PresetEnv(script)[k]] :
                       keys \in SUBSET DOMAIN PresetEnv(script)}
    /\ cfg_pc = "load_env_file" /\ settings = EmptyDict
    /\ RunnerIdle /\ CompareIdle /\ RatioIdle /\ GeneratorsIdle

\* main(): load_env_file(args.env_file); an OSError leaves main
main_load_env_file ==
    /\ cfg_pc = "load_env_file"
    /\ LET r == load_env_file(args.env_file, env_content, environ)
       IN  /\ environ' = r.environ
           /\ cfg_pc' = IF r.raised THEN "raised" ELSE "settings"
    /\ UNCHANGED <<script, args, env_content, settings, runnerVars, cmpVars,
                   ratioVars, genVars>>

\* main(): record_count = args.records or int(os.getenv(...)) and
\* output_file = args.output or os.getenv(...)
main_settings ==
    /\ cfg_pc = "settings"
    /\ LET record_count_ == Or(args.records, env_records(environ))
       IN  IF ~IsTrue(args.records) /\ env_records(environ) = ValueError
           THEN cfg_pc' = "raised" /\ settings' = settings
           ELSE /\ cfg_pc' = "done"
                /\ settings' =
                      [record_count |-> record_count_,
                       output_file |->
                           Or(args.output, env_output(script, environ))]
    /\ UNCHANGED <<script, args, env_content, environ, runnerVars, cmpVars,
                   ratioVars, genVars>>

NextConfig == main_load_env_file \/ main_settings

SpecConfig == InitConfig /\ [][NextConfig]_vars


\* ------------------------------------------------- properties of the runners
\* positions of the trace
Pos == DOMAIN trace

\* the steps of the try block after connect
BenchSteps == {Steps[k] : k \in 2..Len(Steps)}

\* a step of the given set raised at position i of the trace
RaisedAt(i, ops) == trace[i].ev = "raise" /\ trace[i].op \in ops

StepRaised == \E i \in Pos : RaisedAt(i, BenchSteps)
ConnectRaised == \E i \in Pos : RaisedAt(i, {"connect"})

\* C3: whichever benchmarking step raises, cleanup() is called after the
\* raise and before main finishes (the process exit follows the call)
C3_CleanupAfterRaise ==
    pc = "done" =>
        \A i \in Pos : RaisedAt(i, BenchSteps) =>
            \E j \in Pos : /\ j > i
                           /\ trace[j] = Log("cleanup", "call")
                           /\ \E k \in Pos : k > j /\ trace[k] = Log("main", "exit")

C3_Witness ==
    /\ pc = "done"
    /\ \E i \in Pos : RaisedAt(i, {"benchmark_queries"})
    /\ \E j \in Pos : trace[j] = Log("cleanup", "call")

\* C4: a run in which connect or a benchmarking step raised exits with a
\* non-zero code, so exit code 0 is reached only when nothing raised
C4_FailureExitsNonZero ==
    pc = "done" =>
        /\ exit_code.t = "num"
        /\ (ConnectRaised \/ StepRaised) => exit_code.v # 0

C4_Witness ==
    /\ pc = "done"
    /\ \E i \in Pos : RaisedAt(i, {"benchmark_updates"})
    /\ exit_code = Num(1)

\* C5: a failure inside cleanup() does not leave cleanup (cleanup returns),
\* close() is called after it, and the exit code is the one the run would
\* have had: 0 after a run without a raise, non-zero after a failed one
C5_CleanupFailureSwallowed ==
    pc = "done" =>
        \A i \in Pos : trace[i] = Log("cleanup", "DROP raised") =>
            /\ trace[i + 1] = Log("cleanup", "return")
            /\ \E j \in Pos : j > i /\ trace[j] = Log("close", "call")
            /\ exit_code.t = "num"
            /\ (exit_code.v = 0) <=> ~(ConnectRaised \/ StepRaised)

C5_Witness ==
    /\ pc = "done"
    /\ \E i \in Pos : trace[i] = Log("cleanup", "DROP raised")
    /\ exit_code = Num(0)

\* every metric section of a written document has been recorded
MetricsRecorded(doc) ==
    /\ doc.insert_performance # EmptyDict
    /\ doc.storage_sizes # EmptyDict
    /\ doc.query_performance # EmptyDict
    /\ doc.update_performance # EmptyDict

\* the calls of the try block appear in program order, each right after the
\* normal return of the one before
LinearOrder ==
    \A i \in Pos : (trace[i].ev = "call" /\ trace[i].op \in BenchSteps \cup {"connect"}) =>
        LET k == StepIndex(trace[i].op)
        IN  IF k = 1 THEN i = 1
            ELSE i > 1 /\ trace[i - 1] = Log(Steps[k - 1], "return")

\* C6: the steps run in the fixed order, each only after the previous one
\* returned without raising, and every written report holds the insert,
\* storage, query and update metrics
C6_LinearThenReport ==
    /\ LinearOrder
    /\ \A n \in DOMAIN written : MetricsRecorded(written[n])

\* C7: once connect or a benchmarking step has raised, nothing but cleanup,
\* close and the process exit follows
C7_AbortAfterFailure ==
    \A i \in Pos : RaisedAt(i, BenchSteps \cup {"connect"}) =>
        \A j \in Pos : j > i => trace[j].op \in {"cleanup", "close", "main"}

C7_Witness ==
    /\ pc = "done"
    /\ \E i \in Pos : RaisedAt(i, {"benchmark_inserts"})
    /\ trace[Len(trace)] = Log("main", "exit")

\* C8: connect is called at most once, and when the process exits every
\* connection that was established is closed and so is its cursor, also
\* after a failure of cleanup or of closing the cursor (a failure of
\* conn.close() itself is the one case left out)
C8_ConnectionClosedAtExit ==
    /\ Cardinality({i \in Pos : trace[i] = Log("connect", "call")}) <= 1
    /\ (/\ pc = "done"
        /\ conn # "unset"
        /\ ~\E i \in Pos : trace[i] = Log("close", "conn.close raised"))
       => conn = "closed"

\* C9: the report is written at most once, and once it is written no step
\* changes the results record or the file
C9_WrittenOnceThenImmutable ==
    [][/\ Len(written') <= 1
       /\ written # <<>> => (results' = results /\ written' = written)]_vars

C9_Witness ==
    /\ pc = "done"
    /\ Len(written) = 1
    /\ written[1] = results
    /\ \E i \in Pos : trace[i] = Log("cleanup", "return")

\* the table variants of each engine
Variants(e) == IF e = "postgresql" THEN {"json", "jsonb"} ELSE {"json"}

\* C10: every written results document has the five sections populated
C10_DocumentPopulated ==
    \A n \in DOMAIN written :
        LET doc == written[n]
            version == IF engine = "postgresql"
                       THEN doc.test_info.postgresql_version
                       ELSE doc.test_info.mysql_version
        IN  /\ version # None
            /\ {"record_count", "json_time_seconds", "json_records_per_second"}
                  \subseteq DOMAIN doc.insert_performance
            /\ Variants(engine) \subseteq DOMAIN doc.storage_sizes
            /\ DOMAIN doc.query_performance
                  = {query_types[k] : k \in 1..Len(query_types)}
            /\ "json_time_ms" \in DOMAIN doc.update_performance


\* ------------------------------------------- SpecCompare: compare_benchmarks
Sections == {"test_info", "insert_performance", "storage_sizes",
             "query_performance", "update_performance"}

QueryTypeSet == {query_types[k] : k \in 1..Len(query_types)}

\* the metric categories: insert time, storage size, the five query times,
\* update time, insert throughput
Category(name) ==
    CASE name = "insert" -> 1
      [] name = "storage" -> 2
      [] name \in QueryTypeSet -> 2 + QueryIndex(name)
      [] name = "update" -> 8
      [] name = "rps" -> 9

\* the metric of a category in a fabricated document: every category gets its
\* own value, zero included
Metric(seed, stride, name) ==
    Num((seed + stride * Category(name)) % (MaxMetric + 1))

\* a results document as benchmark_runner.py writes it, with the sections
\* `secs` and the queries `qs`
PgDocument(a, b, secs, qs) ==
    [sec \in secs |->
        CASE sec = "test_info" ->
                [timestamp |-> Str, postgresql_version |-> Str,
                 server_info |-> Str]
          [] sec = "insert_performance" ->
                [record_count |-> Num(1),
                 json_time_seconds |-> Metric(a, 1, "insert"),
                 jsonb_time_seconds |-> Metric(b, 2, "insert"),
                 json_records_per_second |-> Metric(a, 1, "rps"),
                 jsonb_records_per_second |-> Metric(b, 2, "rps")]
          [] sec = "storage_sizes" ->
                [json |-> [total_size_mb |-> Metric(a, 1, "storage")],
                 jsonb |-> [total_size_mb |-> Metric(b, 2, "storage")],
                 size_ratio |-> Num(1)]
          [] sec = "query_performance" ->
                [q \in qs |-> [description |-> Str,
                               json_time_ms |-> Metric(a, 1, q),
                               jsonb_time_ms |-> Metric(b, 2, q)]]
          [] sec = "update_performance" ->
                [records_updated |-> Num(1000),
                 json_time_ms |-> Metric(a, 1, "update"),
                 jsonb_time_ms |-> Metric(b, 2, "update")]]

\* a results document as mysql_benchmark_runner.py writes it; `variants` is
\* the set of keys of its storage_sizes
MysqlDocument(m, secs, qs, variants) ==
    [sec \in secs |->
        CASE sec = "test_info" ->
                [timestamp |-> Str, mysql_version |-> Str, server_info |-> Str]
          [] sec = "insert_performance" ->
                [record_count |-> Num(1),
                 json_time_seconds |-> Metric(m, 3, "insert"),
                 json_records_per_second |-> Metric(m, 3, "rps")]
          [] sec = "storage_sizes" ->
                [v \in variants |-> [total_size_mb |-> Metric(m, 3, "storage")]]
          [] sec = "query_performance" ->
                [q \in qs |-> [description |-> Str,
                               json_time_ms |-> Metric(m, 3, q)]]
          [] sec = "update_performance" ->
                [records_updated |-> Num(1000),
                 json_time_ms |-> Metric(m, 3, "update")]]

\* the section sets of the fabricated documents: complete, one section
\* missing, or the empty document {}
Shapes == {Sections} \cup {Sections \ {sec} : sec \in Sections} \cup {{}}

\* the query sets of the fabricated documents: all five, or one missing
QuerySets == {QueryTypeSet, QueryTypeSet \ {"array_operations"}}

PgDocuments ==
    {PgDocument(a, b, secs, qs) :
        a \in 0..MaxSeed, b \in 0..MaxSeed, secs \in Shapes, qs \in QuerySets}

MysqlDocuments ==
    {MysqlDocument(m, secs, qs, variants) :
        m \in 0..MaxSeed, secs \in Shapes, qs \in QuerySets,
        variants \in {{"json"}, {}}}

\* the two paths passed to compare_benchmarks
PgPath == [t |-> "path", v |-> 1]
MysqlPath == [t |-> "path", v |-> 2]
OutPath == [t |-> "path", v |-> 3]

\* load_results: None when no file exists at the path, else the document
load_results(file) == IF file = NoFile THEN None ELSE file

\* Python truthiness of what load_results returns: None and {} are falsy
DictTruthy(d) == d # None /\ d # EmptyDict

\* `results and section in results`
HasSection(d, sec) == DictTruthy(d) /\ sec \in DOMAIN d

\* an INSERT baseline that falls back to 1 where the code falls back to 0
mysql_time_default_one(mysql_results) ==
    IF HasSection(mysql_results, "insert_performance")
    THEN Get(mysql_results.insert_performance, "json_time_seconds", Num(1))
    ELSE Num(1)

\* the INSERT baseline: mysql_time
mysql_time(mysql_results) ==
    IF HasSection(mysql_results, "insert_performance")
    THEN Get(mysql_results.insert_performance, "json_time_seconds", Num(0))
    ELSE Num(0)

\* insert_data of compare_benchmarks
insert_data(pg_results, mysql_results) ==
    LET hasMy == HasSection(mysql_results, "insert_performance")
        hasPg == HasSection(pg_results, "insert_performance")
        mysql_rps == IF hasMy
            THEN Get(mysql_results.insert_performance,
                     "json_records_per_second", Num(0))
            ELSE Num(0)
        pg_insert == pg_results.insert_performance
        keys == (IF hasMy THEN {"mysql_json"} ELSE {})
                \cup (IF hasPg THEN {"postgresql_json", "postgresql_jsonb"}
                      ELSE {})
    IN  [k \in keys |->
            CASE k = "mysql_json" ->
                    [time |-> mysql_time(mysql_results), rps |-> mysql_rps]
              [] k = "postgresql_json" ->
                    LET t == Get(pg_insert, "json_time_seconds", Num(0))
                    IN  [time |-> t,
                         rps |-> Get(pg_insert, "json_records_per_second", Num(0)),
                         ratio |-> format_ratio(t, mysql_time(mysql_results))]
              [] k = "postgresql_jsonb" ->
                    LET t == Get(pg_insert, "jsonb_time_seconds", Num(0))
                    IN  [time |-> t,
                         rps |-> Get(pg_insert, "jsonb_records_per_second", Num(0)),
                         ratio |-> format_ratio(t, mysql_time(mysql_results))]]

\* the storage baseline: mysql_mb
mysql_mb(mysql_results) ==
    IF HasSection(mysql_results, "storage_sizes")
       /\ "json" \in DOMAIN mysql_results.storage_sizes
    THEN Get(mysql_results.storage_sizes.json, "total_size_mb", Num(0))
    ELSE Num(0)

\* storage_data of compare_benchmarks
storage_data(pg_results, mysql_results) ==
    LET hasMy == HasSection(mysql_results, "storage_sizes")
                 /\ "json" \in DOMAIN mysql_results.storage_sizes
        hasPg == HasSection(pg_results, "storage_sizes")
        pg_storage == pg_results.storage_sizes
        keys == (IF hasMy THEN {"mysql_json"} ELSE {})
                \cup (IF hasPg /\ "json" \in DOMAIN pg_storage
                      THEN {"postgresql_json"} ELSE {})
                \cup (IF hasPg /\ "jsonb" \in DOMAIN pg_storage
                      THEN {"postgresql_jsonb"} ELSE {})
    IN  [k \in keys |->
            CASE k = "mysql_json" -> [size_mb |-> mysql_mb(mysql_results)]
              [] k = "postgresql_json" ->
                    LET mb == Get(pg_storage.json, "total_size_mb", Num(0))
                    IN  [size_mb |-> mb,
                         ratio |-> format_ratio(mb, mysql_mb(mysql_results))]
              [] k = "postgresql_jsonb" ->
                    LET mb == Get(pg_storage.jsonb, "total_size_mb", Num(0))
                    IN  [size_mb |-> mb,
                         ratio |-> format_ratio(mb, mysql_mb(mysql_results))]]


\* a baseline lookup that gives every query the time of the first query
mysql_query_baseline_first_query(mysql_results) ==
    IF HasSection(mysql_results, "query_performance")
    THEN [q \in QueryTypeSet |->
            Get(Get(mysql_results.query_performance, query_types[1], EmptyDict),
                "json_time_ms", Num(0))]
    ELSE EmptyDict

\* mysql_query_baseline of compare_benchmarks: the MySQL time of each query
mysql_query_baseline(mysql_results) ==
    IF HasSection(mysql_results, "query_performance")
    THEN [q \in QueryTypeSet |->
            Get(Get(mysql_results.query_performance, q, EmptyDict),
                "json_time_ms", Num(0))]
    ELSE EmptyDict

\* query_data of compare_benchmarks
query_data(pg_results, mysql_results) ==
    LET hasMy == HasSection(mysql_results, "query_performance")
        hasPg == HasSection(pg_results, "query_performance")
        keys == (IF hasPg THEN {"postgresql_json", "postgresql_jsonb"} ELSE {})
                \cup (IF hasMy THEN {"mysql_json"} ELSE {})
        row(query_type) ==
            LET mysql_baseline ==
                    Get(mysql_query_baseline(mysql_results), query_type, Num(0))
                pg_query ==
                    Get(pg_results.query_performance, query_type, EmptyDict)
                mysql_query ==
                    Get(mysql_results.query_performance, query_type, EmptyDict)
            IN  [k \in keys |->
                    CASE k = "postgresql_json" ->
                            LET ms == Get(pg_query, "json_time_ms", NA)
                            IN  [time_ms |-> ms,
                                 ratio |-> format_ratio(ms, mysql_baseline)]
                      [] k = "postgresql_jsonb" ->
                            LET ms == Get(pg_query, "jsonb_time_ms", NA)
                            IN  [time_ms |-> ms,
                                 ratio |-> format_ratio(ms, mysql_baseline)]
                      [] k = "mysql_json" ->
                            [time_ms |-> Get(mysql_query, "json_time_ms", NA),
                             ratio |-> RatioStr(100)]]
    IN  [query_type \in QueryTypeSet |-> row(query_type)]

\* the update baseline: mysql_update_ms
mysql_update_ms(mysql_results) ==
    IF HasSection(mysql_results, "update_performance")
    THEN Get(mysql_results.update_performance, "json_time_ms", Num(0))
    ELSE Num(0)

\* update_data of compare_benchmarks
update_data(pg_results, mysql_results) ==
    LET hasMy == HasSection(mysql_results, "update_performance")
        hasPg == HasSection(pg_results, "update_performance")
        pg_update == pg_results.update_performance
        keys == (IF hasMy THEN {"mysql_json"} ELSE {})
                \cup (IF hasPg THEN {"postgresql_json", "postgresql_jsonb"}
                      ELSE {})
    IN  [k \in keys |->
            CASE k = "mysql_json" -> [time_ms |-> mysql_update_ms(mysql_results)]
              [] k = "postgresql_json" ->
                    LET ms == Get(pg_update, "json_time_ms", Num(0))
                    IN  [time_ms |-> ms,
                         ratio |-> format_ratio(ms, mysql_update_ms(mysql_results))]
              [] k = "postgresql_jsonb" ->
                    LET ms == Get(pg_update, "jsonb_time_ms", Num(0))
                    IN  [time_ms |-> ms,
                         ratio |-> format_ratio(ms, mysql_update_ms(mysql_results))]]

KeyError == [t |-> "KeyError", v |-> 0]

\* the position of a key in insert_data, storage_data and update_data: the
\* MySQL entry is stored first, then the two PostgreSQL entries
InsertionOrder(k) ==
    CASE k = "mysql_json" -> 1
      [] k = "postgresql_json" -> 2
      [] k = "postgresql_jsonb" -> 3

\* key.replace('_', ' ').title()
title(k) ==
    CASE k = "mysql_json" -> "Mysql Json"
      [] k = "postgresql_json" -> "Postgresql Json"
      [] k = "postgresql_jsonb" -> "Postgresql Jsonb"

\* a selection that takes the entry with the largest metric
min_item_takes_largest(data, field) ==
    LET most == {k \in DOMAIN data :
                    \A k2 \in DOMAIN data : data[k2][field].v <= data[k][field].v}
    IN  CHOOSE k \in most :
            \A k2 \in most : InsertionOrder(k) <= InsertionOrder(k2)

\* min(data.items(), key=lambda x: x[1][field]): the first entry, in
\* insertion order, whose metric no other entry is below
min_item(data, field) ==
    LET least == {k \in DOMAIN data :
                    \A k2 \in DOMAIN data : data[k][field].v <= data[k2][field].v}
    IN  CHOOSE k \in least :
            \A k2 \in least : InsertionOrder(k) <= InsertionOrder(k2)

\* the "Fastest ..."/"Smallest ..." line of one category: None when the
\* `if data:` guard skips it
summary_line(data, field) ==
    IF DOMAIN data = {} THEN None
    ELSE LET k == min_item(data, field)
         IN  [name |-> title(k), value |-> data[k][field]]

\* compare_benchmarks(pg_file, mysql_file, output_file): what it returns or
\* raises, the comparison dict it built, the summary lines it printed and
\* what it wrote to output_file.
\* The test-information lines read results['test_info'] of every document
\* that was loaded and raise KeyError when it is missing.
compare_benchmarks(pgf, myf, out) ==
    LET pg_results == load_results(pgf)
        mysql_results == load_results(myf)
        built ==
            [generated_at |-> Str,
             sources |->
                [postgresql |-> IF DictTruthy(pg_results) THEN PgPath ELSE None,
                 mysql |-> IF DictTruthy(mysql_results) THEN MysqlPath ELSE None],
             comparison |->
                [insert_performance |-> insert_data(pg_results, mysql_results),
                 storage_sizes |-> storage_data(pg_results, mysql_results),
                 query_performance |-> query_data(pg_results, mysql_results),
                 update_performance |-> update_data(pg_results, mysql_results)]]
    IN  IF ~DictTruthy(pg_results) /\ ~DictTruthy(mysql_results)
        THEN [rc |-> Num(1), comparison |-> EmptyDict, summary |-> EmptyDict,
              file |-> <<>>]
        ELSE IF \/ DictTruthy(pg_results) /\ "test_info" \notin DOMAIN pg_results
                \/ DictTruthy(mysql_results)
                     /\ "test_info" \notin DOMAIN mysql_results
        THEN [rc |-> KeyError, comparison |-> EmptyDict, summary |-> EmptyDict,
              file |-> <<>>]
        ELSE [rc |-> Num(0), comparison |-> built,
              summary |->
                [insert |-> summary_line(built.comparison.insert_performance,
                                         "time"),
                 storage |-> summary_line(built.comparison.storage_sizes,
                                          "size_mb"),
                 update |-> summary_line(built.comparison.update_performance,
                                         "time_ms")],
              file |-> IF Truthy(out) THEN <<built>> ELSE <<>>]

InitCompare ==
    /\ pg_file \in PgDocuments \cup {NoFile}
    /\ mysql_file \in MysqlDocuments \cup {NoFile}
    /\ output_file \in {None, OutPath}
    /\ comparison = EmptyDict /\ cmp_file = <<>> /\ cmp_rc = Unset
    /\ cmp_summary = EmptyDict
    /\ RunnerIdle /\ RatioIdle /\ GeneratorsIdle /\ ConfigIdle

call_compare_benchmarks ==
    /\ cmp_rc = Unset
    /\ LET r == compare_benchmarks(pg_file, mysql_file, output_file)
       IN  /\ cmp_rc' = r.rc
           /\ comparison' = r.comparison
           /\ cmp_file' = r.file
           /\ cmp_summary' = r.summary
    /\ UNCHANGED <<pg_file, mysql_file, output_file, runnerVars, ratioVars,
                   auxVars>>

NextCompare == call_compare_benchmarks

SpecCompare == InitCompare /\ [][NextCompare]_vars


\* benchmark_inserts of the MySQL runner has just returned normally
InsertsReturned ==
    /\ engine = "mysql" /\ pc = "check_storage_sizes"
    /\ trace[Len(trace)] = Log("benchmark_inserts", "return")

\* C16: when MySQL benchmark_inserts(record_count) returns, for every
\* record_count >= 0, the rows it inserted are exactly the indices
\* 1..record_count, each once and in increasing order, they were passed to
\* executemany in consecutive batches of at least 1 and at most 10000 rows,
\* and the recorded record_count is the number of rows inserted.
C16_BatchesCoverIndices ==
    InsertsReturned =>
        /\ db.json = [i \in 1..record_count |-> i]
        /\ Flatten(batches) = db.json
        /\ \A b \in 1..Len(batches) :
              Len(batches[b]) >= 1 /\ Len(batches[b]) <= 10000
        /\ results.insert_performance.record_count = Num(Len(db.json))

\* a run of 20001 records: two full batches and a last batch holding the
\* single index 20001
C16_Witness ==
    /\ InsertsReturned
    /\ record_count = 20001
    /\ Len(batches) = 3
    /\ Len(batches[1]) = 10000 /\ Len(batches[2]) = 10000
    /\ batches[3] = <<20001>>
    /\ Len(db.json) = 20001

\* a run of 0 records: the loop body never runs and nothing is inserted
C16_WitnessNoRecords ==
    /\ InsertsReturned /\ record_count = 0
    /\ batches = <<>> /\ db.json = <<>>

\* C17: in both runners a results document is written if and only if the run
\* exits with code 0; a run that exits with a non-zero code has written no
\* results file.
C17_WrittenIffExitZero ==
    exit_code # Unset => (written # <<>> <=> exit_code = Num(0))

\* the part of C17 that the code keeps: the PostgreSQL runner, and in both
\* runners an exit code of 0 only after the document was written
C17_HoldsForPostgreSQL ==
    /\ engine = "postgresql" => C17_WrittenIffExitZero
    /\ exit_code = Num(0) => written # <<>>

\* C19: the records_updated value recorded in update_performance equals the
\* number of rows the timed UPDATE of ids 1 to 1000 modified in each table,
\* whatever record count the run was started with.
C19_RecordsUpdatedIsRowcount ==
    "records_updated" \in DOMAIN results.update_performance =>
        /\ DOMAIN rowcount = Variants(engine)
        /\ \A v \in DOMAIN rowcount :
              results.update_performance.records_updated = Num(rowcount[v])

\* what the timed UPDATE modifies: every row of a table that holds the
\* record count the run was started with, up to the first 1000
C19_RowcountIsTableSize ==
    \A v \in DOMAIN rowcount : rowcount[v] = Min(record_count, 1000)

\* C20: the INSERT 'Winner' line of the PostgreSQL report names the variant
\* whose measured insert time is the smaller of the two.
C20_WinnerIsFaster ==
    \A k \in 1..Len(console) :
        LET insert == results.insert_performance
        IN  /\ console[k] = "JSON" =>
                insert.json_time_seconds.v <= insert.jsonb_time_seconds.v
            /\ console[k] = "JSONB" =>
                insert.jsonb_time_seconds.v <= insert.json_time_seconds.v

\* what the 'Winner' line does name: the slower variant, or JSONB when the
\* ratio of the two times rounds to 1.00 or less
C20_WinnerIsSlower ==
    \A k \in 1..Len(console) :
        LET insert == results.insert_performance
        IN  /\ console[k] = "JSON" =>
                insert.json_time_seconds.v > insert.jsonb_time_seconds.v
            /\ console[k] = "JSONB" =>
                insert.jsonb_time_seconds.v >= insert.json_time_seconds.v

\* ---------------------------------------------- properties of the comparator
Abs(x) == IF x < 0 THEN -x ELSE x

\* h hundredths is n/d rounded to two decimals: no other multiple of 0.01 is
\* nearer to n/d, and of two equally near ones h is the even one
NearestHundredth(h, n, d) ==
    /\ 2 * Abs(100 * n - h * d) <= d
    /\ 2 * Abs(100 * n - h * d) = d => h % 2 = 0

\* the baselines for which the specification promises "N/A"
DegenerateBaseline(b) == b = Num(0) \/ b = None \/ b = NA

\* C1: format_ratio returns "N/A" exactly when the baseline is zero, absent
\* or the sentinel 'N/A', and value/baseline rounded to 2 decimals for every
\* other input (value a number or the sentinel)
C1_Original ==
    (fr_result # Unset /\ fr_value # None) =>
        IF DegenerateBaseline(fr_baseline) THEN fr_result = NA
        ELSE /\ fr_result.t = "x"
             /\ fr_value.t = "num"
             /\ NearestHundredth(fr_result.v, fr_value.v, fr_baseline.v)

\* C1 (amended): format_ratio returns "N/A" exactly when the baseline is zero,
\* None or 'N/A' or the value is 'N/A'; for a number over a non-zero number
\* it returns value/baseline rounded to 2 decimals, rendered with an "x"
C1_FormatRatio ==
    fr_result # Unset =>
        /\ (fr_result = NA) <=>
               (DegenerateBaseline(fr_baseline) \/ fr_value = NA)
        /\ (fr_value.t = "num" /\ fr_baseline.t = "num" /\ fr_baseline.v # 0) =>
               /\ fr_result.t = "x"
               /\ NearestHundredth(fr_result.v, fr_value.v, fr_baseline.v)

C1_Witness ==
    /\ fr_value = NA
    /\ fr_baseline.t = "num" /\ fr_baseline.v > 0
    /\ fr_result = NA

\* the recorded ratio r is the metric v over the non-zero baseline b
IsRatioOf(r, v, b) ==
    (v.t = "num" /\ b.t = "num" /\ b.v # 0) =>
        r.t = "x" /\ NearestHundredth(r.v, v.v, b.v)

\* both documents were loaded and have the section
BothHave(sec) ==
    /\ pg_file # NoFile /\ sec \in DOMAIN pg_file
    /\ mysql_file # NoFile /\ sec \in DOMAIN mysql_file

\* C2: in the comparison document that compare_benchmarks writes, the ratio
\* of every category (insert time, storage total_size_mb, the five query
\* times, update time) and PostgreSQL variant is that variant's metric over
\* the non-zero MySQL metric of the same category and query, to 2 decimals
C2_ComparisonRatios ==
    \A n \in DOMAIN cmp_file :
        LET c == cmp_file[n].comparison
        IN  /\ BothHave("insert_performance") =>
                /\ IsRatioOf(c.insert_performance.postgresql_json.ratio,
                             pg_file.insert_performance.json_time_seconds,
                             mysql_file.insert_performance.json_time_seconds)
                /\ IsRatioOf(c.insert_performance.postgresql_jsonb.ratio,
                             pg_file.insert_performance.jsonb_time_seconds,
                             mysql_file.insert_performance.json_time_seconds)
            /\ (BothHave("storage_sizes")
                /\ "json" \in DOMAIN mysql_file.storage_sizes) =>
                /\ IsRatioOf(c.storage_sizes.postgresql_json.ratio,
                             pg_file.storage_sizes.json.total_size_mb,
                             mysql_file.storage_sizes.json.total_size_mb)
                /\ IsRatioOf(c.storage_sizes.postgresql_jsonb.ratio,
                             pg_file.storage_sizes.jsonb.total_size_mb,
                             mysql_file.storage_sizes.json.total_size_mb)
            /\ BothHave("query_performance") =>
                \A q \in DOMAIN pg_file.query_performance
                         \cap DOMAIN mysql_file.query_performance :
                    /\ IsRatioOf(c.query_performance[q].postgresql_json.ratio,
                                 pg_file.query_performance[q].json_time_ms,
                                 mysql_file.query_performance[q].json_time_ms)
                    /\ IsRatioOf(c.query_performance[q].postgresql_jsonb.ratio,
                                 pg_file.query_performance[q].jsonb_time_ms,
                                 mysql_file.query_performance[q].json_time_ms)
            /\ BothHave("update_performance") =>
                /\ IsRatioOf(c.update_performance.postgresql_json.ratio,
                             pg_file.update_performance.json_time_ms,
                             mysql_file.update_performance.json_time_ms)
                /\ IsRatioOf(c.update_performance.postgresql_jsonb.ratio,
                             pg_file.update_performance.jsonb_time_ms,
                             mysql_file.update_performance.json_time_ms)

\* a written comparison of two complete documents whose MySQL metrics are all
\* non-zero, with a ratio that is not a whole number
C2_Witness ==
    /\ cmp_rc = Num(0) /\ Len(cmp_file) = 1
    /\ pg_file # NoFile /\ DOMAIN pg_file = Sections
    /\ mysql_file # NoFile /\ DOMAIN mysql_file = Sections
    /\ DOMAIN pg_file.query_performance = QueryTypeSet
    /\ DOMAIN mysql_file.query_performance = QueryTypeSet
    /\ "json" \in DOMAIN mysql_file.storage_sizes
    /\ mysql_file.insert_performance.json_time_seconds.v # 0
    /\ mysql_file.storage_sizes.json.total_size_mb.v # 0
    /\ mysql_file.update_performance.json_time_ms.v # 0
    /\ \A q \in QueryTypeSet : mysql_file.query_performance[q].json_time_ms.v # 0
    /\ cmp_file[1].comparison.query_performance["path_queries"]
           .postgresql_jsonb.ratio.v % 100 # 0

\* the categories of the printed summaries, the comparison section each one
\* is taken from and the metric it compares
SummaryCategories == {"insert", "storage", "update"}
SummarySection(c) ==
    CASE c = "insert" -> "insert_performance"
      [] c = "storage" -> "storage_sizes"
      [] c = "update" -> "update_performance"
SummaryField(c) ==
    CASE c = "insert" -> "time"
      [] c = "storage" -> "size_mb"
      [] c = "update" -> "time_ms"

\* C11: when the comparison completes, the "Fastest INSERT", "Smallest
\* storage" and "Fastest UPDATE" lines each name an entry that is present in
\* the category's comparison set and whose metric (time, size_mb, time_ms) is
\* less than or equal to that of every entry of the set, and the line of a
\* category is printed exactly when the set is non-empty.
C11_SummaryNamesMinimum ==
    cmp_rc = Num(0) =>
        \A c \in SummaryCategories :
            LET data == comparison.comparison[SummarySection(c)]
                line == cmp_summary[c]
            IN  /\ (line # None) <=> (DOMAIN data # {})
                /\ line # None =>
                      \E k \in DOMAIN data :
                          /\ line.name = title(k)
                          /\ line.value = data[k][SummaryField(c)]
                          /\ \A k2 \in DOMAIN data :
                                line.value.v <= data[k2][SummaryField(c)].v

\* a comparison of three INSERT entries in which PostgreSQL JSONB is strictly
\* the fastest, and in which no storage entry exists so that no "Smallest
\* storage" line is printed
C11_Witness ==
    /\ cmp_rc = Num(0)
    /\ Cardinality(DOMAIN comparison.comparison.insert_performance) = 3
    /\ cmp_summary.insert # None
    /\ cmp_summary.insert.name = "Postgresql Jsonb"
    /\ \A k \in {"mysql_json", "postgresql_json"} :
          comparison.comparison.insert_performance[k].time.v
              > cmp_summary.insert.value.v
    /\ cmp_summary.storage = None

\* a results file that compare_benchmarks can print the header of: it
\* exists, is not the empty document and has its test_info section
Loadable(file) ==
    file # NoFile /\ DOMAIN file # {} /\ "test_info" \in DOMAIN file

\* a results file that is absent or empty, which the comparator skips
Skipped(file) == file = NoFile \/ DOMAIN file = {}

\* the MySQL baseline of a category is missing or zero in the MySQL file:
\* no file, no section, no metric in the section, or a metric equal to 0
BaselineOf(file, section, path, field) ==
    IF Skipped(file) \/ section \notin DOMAIN file THEN Num(0)
    ELSE IF path = "" THEN Get(file[section], field, Num(0))
    ELSE IF path \in DOMAIN file[section]
         THEN Get(file[section][path], field, Num(0))
         ELSE Num(0)

\* every PostgreSQL entry of a comparison set carries the ratio "N/A"
AllPgRatiosNA(data) ==
    \A k \in DOMAIN data \cap {"postgresql_json", "postgresql_jsonb"} :
        data[k].ratio = NA

C12_WitnessNoMysqlFile ==
    /\ cmp_rc = Num(0) /\ mysql_file = NoFile /\ cmp_file = <<comparison>>
    /\ "postgresql_jsonb" \in DOMAIN comparison.comparison.update_performance
    /\ AllPgRatiosNA(comparison.comparison.update_performance)

\* what 'sources' has to say about a results file: its path when the file
\* exists, null when it does not
SourceOf(file, path) == IF file = NoFile THEN None ELSE path

\* C15: compare_benchmarks returns 1 and writes no comparison document
\* exactly when neither results file exists; whenever at least one of the
\* two files exists it returns 0 and, given an output path, writes a
\* comparison document whose 'sources' names each file that exists and is
\* null for each file that does not.
C15_ReturnCodeFollowsFiles ==
    cmp_rc # Unset =>
        /\ cmp_rc = Num(1) <=> (pg_file = NoFile /\ mysql_file = NoFile)
        /\ cmp_rc = Num(1) => cmp_file = <<>>
        /\ (pg_file # NoFile \/ mysql_file # NoFile) =>
              /\ cmp_rc = Num(0)
              /\ Truthy(output_file) =>
                    /\ Len(cmp_file) = 1
                    /\ cmp_file[1].sources.postgresql
                          = SourceOf(pg_file, PgPath)
                    /\ cmp_file[1].sources.mysql
                          = SourceOf(mysql_file, MysqlPath)

\* the part of C15 that the code keeps: the same statement for results files
\* that, when they exist, are non-empty documents with a test_info section
C15_HoldsForLoadableFiles ==
    ((pg_file = NoFile \/ Loadable(pg_file))
        /\ (mysql_file = NoFile \/ Loadable(mysql_file)))
    => C15_ReturnCodeFollowsFiles


\* ---------------------------------------------- properties of the generators
\* C18: for every index i >= 1 the PostgreSQL generator and the MySQL
\* generator produce documents with the same value in every field: user_id,
\* username, profile.*, orders[*].*, metadata.last_login,
\* metadata.ip_address and metadata.user_agent.
C18_GeneratorsAgree ==
    pg_doc # Unset => pg_doc = mysql_doc

\* what the two generators do agree on: every field but last_login, and
\* last_login for the days 10 to 30
C18_AgreeExceptLastLogin ==
    pg_doc # Unset =>
        /\ [pg_doc EXCEPT !.metadata.last_login = <<>>]
             = [mysql_doc EXCEPT !.metadata.last_login = <<>>]
        /\ (gen_i % 30) + 1 >= 10
             <=> pg_doc.metadata.last_login = mysql_doc.metadata.last_login


\* ------------------------------------------- properties of the configuration
\* C13: in both runners the record count of the run is the value of --records
\* whenever the flag is given, whatever integer it is, otherwise the value
\* of BENCHMARK_RECORDS when set, otherwise 1000000; the output file is the
\* value of --output when given, otherwise the runner's output-file
\* environment variable when set, otherwise the built-in default name.
C13_SettingsPrecedence ==
    cfg_pc = "done" =>
        /\ settings.record_count =
              IF args.records # None THEN args.records
              ELSE IF <<"BENCHMARK_RECORDS">> \in DOMAIN environ
                   THEN Num(ParseInt(environ[<<"BENCHMARK_RECORDS">>]))
                   ELSE Num(1000000)
        /\ settings.output_file =
              IF args.output # None THEN args.output
              ELSE IF OutputVar(script) \in DOMAIN environ
                   THEN Text(environ[OutputVar(script)])
                   ELSE Text(DefaultOutput(script))

\* the part of C13 that the code keeps: the precedence when --records is
\* absent or a non-zero integer and --output is absent or a non-empty name
C13_HoldsForTruthyArguments ==
    (args # EmptyDict /\ args.records # Num(0) /\ args.output # Text(<<>>))
        => C13_SettingsPrecedence

\* C14: load_env_file never changes the value of a variable that is already
\* in the process environment: across the call every variable that was set
\* keeps its value, so that only keys that were absent are added, and with
\* env_file '/dev/null' or a path at which no file exists the environment
\* is left unchanged.
C14_ExistingEnvironmentKept ==
    [][/\ \A k \in DOMAIN environ :
             k \in DOMAIN environ' /\ environ'[k] = environ[k]
       /\ (args.env_file = "/dev/null" \/ env_content.t = "no file")
             => environ' = environ]_vars

\* the state after loading a file that sets BENCHMARK_RECORDS and PG_HOST
\* into an environment that had BENCHMARK_RECORDS=3 and no PG_HOST: the
\* first keeps its value, the second is added with the value of the file
C14_Witness ==
    /\ cfg_pc = "settings" /\ args.env_file = ".env"
    /\ env_content = [t |-> "file",
                      v |-> << <<"BENCHMARK_RECORDS", "=", "2">>,
                               <<"PG_HOST", "=", "a", "=", "b">> >>]
    /\ DOMAIN environ = {<<"BENCHMARK_RECORDS">>, <<"PG_HOST">>}
    /\ environ[<<"BENCHMARK_RECORDS">>] = <<"3">>
    /\ environ[<<"PG_HOST">>] = <<"a", "=", "b">>

====
